---------------------------- MODULE Spec2Model ----------------------------
(***************************************************************************)
(* Funding-rate lifecycle and oracle normalisation of the clearing house.  *)
(*                                                                         *)
(*   controller/funding.rs : settle_funding_payment, update_funding_rate   *)
(*   state/oracle.rs       : get_oracle_price and its per-source variants  *)
(*                                                                         *)
(* The 64 and 128 bit integer types are modelled at a reduced width        *)
(* (BITS64, BITS128) so that every overflow the checked arithmetic tests   *)
(* for is reachable with small numbers.  Constants of math/constants.rs    *)
(* that do not fit the reduced width are reduced with it.                  *)
(***************************************************************************)
EXTENDS Integers, Sequences, FiniteSets, TLC

(***************************************************************************)
(* Integer types                                                           *)
(***************************************************************************)
BITS64 == 8
BITS128 == 20

RECURSIVE Pow2(_)
Pow2(n) == IF n = 0 THEN 1 ELSE 2 * Pow2(n - 1)

I64_MAX == Pow2(BITS64 - 1) - 1
I64_MIN == -Pow2(BITS64 - 1)
U64_MAX == Pow2(BITS64) - 1
I128_MAX == Pow2(BITS128 - 1) - 1
I128_MIN == -Pow2(BITS128 - 1)
U128_MAX == Pow2(BITS128) - 1

Abs(x) == IF x < 0 THEN -x ELSE x
Sign(x) == IF x < 0 THEN -1 ELSE IF x > 0 THEN 1 ELSE 0
Max(a, b) == IF a >= b THEN a ELSE b
Min(a, b) == IF a <= b THEN a ELSE b

\* Rust's integer division truncates toward zero
TruncDiv(a, b) == Sign(a) * Sign(b) * (Abs(a) \div Abs(b))

\* the remainder of Rust's %, which takes the sign of the dividend
rem_truncating(a, b) == Sign(a) * (Abs(a) % Abs(b))

\* i64::rem_euclid: the non-negative remainder
rem_euclid(a, b) == a % Abs(b)

\* results of the checked operations: Ok(v) or Err
Ok(v) == [ok |-> TRUE, v |-> v]
Err == [ok |-> FALSE, v |-> 0]

InI64(x) == I64_MIN <= x /\ x <= I64_MAX
InI128(x) == I128_MIN <= x /\ x <= I128_MAX
InU128(x) == 0 <= x /\ x <= U128_MAX

\* |a * b| <= bound, decided without forming an unrepresentable product
MulFits(a, b, lo, hi) ==
    \/ a = 0
    \/ b = 0
    \/ /\ Abs(a) <= (hi + 1) \div Abs(b)
       /\ lo <= a * b
       /\ a * b <= hi

i64_checked_sub(a, b) == IF InI64(a - b) THEN Ok(a - b) ELSE Err
i64_checked_mul(a, b) == IF MulFits(a, b, I64_MIN, I64_MAX) THEN Ok(a * b) ELSE Err
i64_checked_div(a, b) ==
    IF b = 0 \/ (a = I64_MIN /\ b = -1) THEN Err ELSE Ok(TruncDiv(a, b))

i128_checked_add(a, b) == IF InI128(a + b) THEN Ok(a + b) ELSE Err
i128_checked_sub(a, b) == IF InI128(a - b) THEN Ok(a - b) ELSE Err
i128_checked_mul(a, b) == IF MulFits(a, b, I128_MIN, I128_MAX) THEN Ok(a * b) ELSE Err
i128_checked_div(a, b) ==
    IF b = 0 \/ (a = I128_MIN /\ b = -1) THEN Err ELSE Ok(TruncDiv(a, b))

u128_checked_mul(a, b) == IF MulFits(a, b, 0, U128_MAX) THEN Ok(a * b) ELSE Err
u128_checked_div(a, b) == IF b = 0 THEN Err ELSE Ok(a \div b)

\* math::casting
cast_to_i128(x) == IF InI128(x) THEN Ok(x) ELSE Err
cast_to_u128(x) == IF InU128(x) THEN Ok(x) ELSE Err
cast_to_i64(x) == IF InI64(x) THEN Ok(x) ELSE Err

(***************************************************************************)
(* Constants of math/constants.rs                                          *)
(***************************************************************************)
ONE_HOUR == 4
FUNDING_PAYMENT_PRECISION == 10000
AMM_TO_QUOTE_PRECISION_RATIO_I128 == 100
MARK_PRICE_PRECISION == 10000
MARK_PRICE_PRECISION_I128 == MARK_PRICE_PRECISION


(***************************************************************************)
(* Bounds of the model                                                     *)
(***************************************************************************)
MaxNow == 5
MaxRecords == 2

FundingPeriods == {3, 4}
InitialTimestamps == {-5, -2, 0}
InitialCounters == {0, I128_MAX - 500}
OracleTwapSamples == {-66, 33, 101}
MarkTwapSamples == {100, I128_MAX + 1}
GuardOutcomes == {"clear", "blocked", "error"}
SplitOutcomes == {"capped_long", "error"}

(***************************************************************************)
(* State                                                                   *)
(***************************************************************************)
VARIABLES
    market,        \* the Market account (with its embedded AMM)
    user,          \* the User account: user.positions
    rateLog,       \* emitted FundingRateRecords
    paymentLog,    \* emitted FundingPaymentRecords
    now,           \* the wall clock handed to the calls
    settled,       \* a settlement has succeeded and no update was called since
    pre,           \* the accounts and logs as the running call found them
    last,          \* what the last call did
    oracle_read,   \* a read of the oracle: source, account, clock_slot
    oracle_price_data, \* what get_oracle_price answered to it
    curve_call,    \* a call of calculate_base_asset_price_with_mantissa
    curve_price    \* what it returned

vars == <<market, user, rateLog, paymentLog, now, settled, pre, last,
          oracle_read, oracle_price_data, curve_call, curve_price>>
oracleVars == <<oracle_read, oracle_price_data>>
curveVars == <<curve_call, curve_price>>
fundingVars == <<market, user, rateLog, paymentLog, now, settled, pre, last>>

(***************************************************************************)
(* update_funding_rate                                                     *)
(***************************************************************************)

one_third_wait_operands_swapped(funding_period, last_update_delay, max_delay_for_next_period, two_funding_periods) ==
    IF last_update_delay > max_delay_for_next_period
    THEN i64_checked_sub(last_update_delay, two_funding_periods)
    ELSE i64_checked_sub(last_update_delay, funding_period)

\* the wait of the one-third rule, before the two-period correction
one_third_wait(funding_period, last_update_delay, max_delay_for_next_period, two_funding_periods) ==
    IF last_update_delay > max_delay_for_next_period
    THEN i64_checked_sub(two_funding_periods, last_update_delay)
    ELSE i64_checked_sub(funding_period, last_update_delay)

next_update_wait_unaligned(funding_period, last_funding_rate_ts) ==
    Ok(funding_period)

\* "round next update time to be available on the hour"
next_update_wait(funding_period, last_funding_rate_ts) ==
    IF funding_period > 1
    THEN LET last_update_delay == rem_euclid(last_funding_rate_ts, funding_period)
         IN  IF last_update_delay # 0
             THEN LET max_delay_for_next_period == i64_checked_div(funding_period, 3)
                      two_funding_periods == i64_checked_mul(funding_period, 2)
                  IN  IF ~max_delay_for_next_period.ok \/ ~two_funding_periods.ok
                      THEN Err
                      ELSE LET w == one_third_wait(funding_period, last_update_delay,
                                                   max_delay_for_next_period.v,
                                                   two_funding_periods.v)
                           IN  IF ~w.ok THEN Err
                               ELSE IF w.v > two_funding_periods.v
                                    THEN i64_checked_sub(w.v, funding_period)
                                    ELSE w
             ELSE Ok(funding_period)
    ELSE Ok(funding_period)

\* max(-max_price_spread, min(price_spread, max_price_spread))
clamp_price_spread(price_spread, max_price_spread) ==
    Max(-max_price_spread, Min(price_spread, max_price_spread))

period_adjustment_rounding_up(funding_period) ==
    LET day == i128_checked_mul(24, ONE_HOUR)
    IN  IF ~day.ok THEN Err
        ELSE i128_checked_div(day.v + Max(ONE_HOUR, funding_period) - 1,
                              Max(ONE_HOUR, funding_period))

\* (24 * ONE_HOUR) / max(ONE_HOUR, funding_period)
period_adjustment(funding_period) ==
    LET day == i128_checked_mul(24, ONE_HOUR)
    IN  IF ~day.ok THEN Err
        ELSE i128_checked_div(day.v, Max(ONE_HOUR, funding_period))

funding_rate_of_dividing_first(clamped_price_spread, adjustment) ==
    LET precision == cast_to_i128(FUNDING_PAYMENT_PRECISION)
        divisor == cast_to_i128(adjustment)
    IN  IF ~precision.ok \/ ~divisor.ok THEN Err
        ELSE LET per_period == i128_checked_div(clamped_price_spread, divisor.v)
             IN  IF ~per_period.ok THEN Err
                 ELSE i128_checked_mul(per_period.v, precision.v)

\* clamped_price_spread * FUNDING_PAYMENT_PRECISION / period_adjustment
funding_rate_of(clamped_price_spread, adjustment) ==
    LET precision == cast_to_i128(FUNDING_PAYMENT_PRECISION)
        divisor == cast_to_i128(adjustment)
    IN  IF ~precision.ok THEN Err
        ELSE LET scaled == i128_checked_mul(clamped_price_spread, precision.v)
             IN  IF ~scaled.ok \/ ~divisor.ok THEN Err
                 ELSE i128_checked_div(scaled.v, divisor.v)

\* math::funding::calculate_funding_rate_long_short: a pure function of the
\* market and the rate; its dependence on open interest is the input `split`
calculate_funding_rate_long_short(split, funding_rate) ==
    CASE split = "symmetric" -> [ok |-> TRUE, long |-> funding_rate, short |-> funding_rate]
      [] split = "capped_long" ->
            [ok |-> TRUE, long |-> TruncDiv(funding_rate, 2), short |-> funding_rate]
      [] split = "capped_short" ->
            [ok |-> TRUE, long |-> funding_rate, short |-> TruncDiv(funding_rate, 2)]
      [] OTHER -> [ok |-> FALSE, long |-> 0, short |-> 0]

\* amm::update_oracle_price_twap / amm::update_mark_twap: store the new
\* average in the AMM and return it
update_oracle_price_twap(m, sample) == [m EXCEPT !.last_oracle_price_twap = sample]
update_mark_twap(m, sample) == [m EXCEPT !.last_mark_price_twap = sample]

\* get_then_update_id!(market, next_funding_rate_record_id)
get_then_update_id(m) ==
    [m EXCEPT !.next_funding_rate_record_id = m.next_funding_rate_record_id + 1]

FundingRateRecord_sides_swapped(m, ts, funding_rate, mid_price_twap, oracle_price_twap) ==
    [ts |-> ts,
     record_id |-> m.next_funding_rate_record_id,
     funding_rate |-> funding_rate,
     cumulative_funding_rate_long |-> m.cumulative_funding_rate_short,
     cumulative_funding_rate_short |-> m.cumulative_funding_rate_long,
     mark_price_twap |-> mid_price_twap,
     oracle_price_twap |-> oracle_price_twap]

\* lines 188-197
FundingRateRecord(m, ts, funding_rate, mid_price_twap, oracle_price_twap) ==
    [ts |-> ts,
     record_id |-> m.next_funding_rate_record_id,
     funding_rate |-> funding_rate,
     cumulative_funding_rate_long |-> m.cumulative_funding_rate_long,
     cumulative_funding_rate_short |-> m.cumulative_funding_rate_short,
     mark_price_twap |-> mid_price_twap,
     oracle_price_twap |-> oracle_price_twap]

\* what a call of update_funding_rate leaves behind
UpdateOutcome(ok, m, records, wait, proceeded, oracle_twap, clamped, rate) ==
    [ok |-> ok, market |-> m, records |-> records, wait |-> wait,
     proceeded |-> proceeded, oracle_twap |-> oracle_twap,
     clamped |-> clamped, rate |-> rate]

\* lines 138-198: the update itself, the call having been found due
proceed_update(m, ts, wait, oracle_sample, mark_sample, split) ==
    LET m1 == update_oracle_price_twap(m, oracle_sample)
        oracle_price_twap == oracle_sample
        m2 == update_mark_twap(m1, mark_sample)
        mid_price_twap == mark_sample
        adjustment == period_adjustment(m.funding_period)
        mid == cast_to_i128(mid_price_twap)
        failed(mm) == UpdateOutcome(FALSE, mm, <<>>, Ok(wait), TRUE, oracle_price_twap, Err, 0)
    IN  IF ~adjustment.ok \/ ~mid.ok THEN failed(m2)
        ELSE
        LET price_spread == i128_checked_sub(mid.v, oracle_price_twap)
            max_price_spread == i128_checked_div(oracle_price_twap, 33)
        IN  IF ~price_spread.ok \/ ~max_price_spread.ok THEN failed(m2)
            ELSE
            LET clamped_price_spread ==
                    clamp_price_spread(price_spread.v, max_price_spread.v)
                funding_rate == funding_rate_of(clamped_price_spread, adjustment.v)
                failed2(mm) == UpdateOutcome(FALSE, mm, <<>>, Ok(wait), TRUE,
                                             oracle_price_twap, Ok(clamped_price_spread), 0)
            IN  IF ~funding_rate.ok THEN failed2(m2)
                ELSE
                LET rates == calculate_funding_rate_long_short(split, funding_rate.v)
                    long == i128_checked_add(m2.cumulative_funding_rate_long, rates.long)
                    m3 == [m2 EXCEPT !.cumulative_funding_rate_long = long.v]
                    short == i128_checked_add(m3.cumulative_funding_rate_short, rates.short)
                    m4 == [m3 EXCEPT !.cumulative_funding_rate_short = short.v,
                                     !.last_funding_rate = funding_rate.v,
                                     !.last_funding_rate_ts = ts]
                    record == FundingRateRecord(m4, ts, funding_rate.v,
                                                mid_price_twap, oracle_price_twap)
                IN  IF ~rates.ok \/ ~long.ok THEN failed2(m2)
                    ELSE IF ~short.ok THEN failed2(m3)
                    ELSE UpdateOutcome(TRUE, get_then_update_id(m4), <<record>>, Ok(wait),
                                       TRUE, oracle_price_twap, Ok(clamped_price_spread),
                                       funding_rate.v)

\* line 138: !funding_paused && !block_funding_rate_update &&
\* time_since_last_update >= next_update_wait
should_proceed_despite_pause(funding_paused, block_funding_rate_update, time_since_last_update, wait) ==
    ~block_funding_rate_update /\ time_since_last_update >= wait

should_proceed_before_due(funding_paused, block_funding_rate_update, time_since_last_update, wait) ==
    ~funding_paused /\ ~block_funding_rate_update

should_proceed(funding_paused, block_funding_rate_update, time_since_last_update, wait) ==
    /\ ~funding_paused
    /\ ~block_funding_rate_update
    /\ time_since_last_update >= wait

\* oracle::block_operation answers "error" (the oracle cannot be loaded or
\* its normalisation fails), "blocked" or "clear"
update_funding_rate(m, ts, guard, funding_paused, oracle_sample, mark_sample, split) ==
    LET time_since_last_update == i64_checked_sub(ts, m.last_funding_rate_ts)
        wait == next_update_wait(m.funding_period, m.last_funding_rate_ts)
        early(ok, w) == UpdateOutcome(ok, m, <<>>, w, FALSE, 0, Err, 0)
    IN  IF ~time_since_last_update.ok THEN early(FALSE, Err)
        ELSE IF guard = "error" THEN early(FALSE, Err)
        ELSE IF ~wait.ok THEN early(FALSE, Err)
        ELSE IF should_proceed(funding_paused, guard = "blocked",
                               time_since_last_update.v, wait.v)
             THEN proceed_update(m, ts, wait.v, oracle_sample, mark_sample, split)
             ELSE early(TRUE, wait)

(***************************************************************************)
(* settle_funding_payment                                                  *)
(***************************************************************************)
MarketIndices == {0}

\* MarketMap::get_ref: the lookup fails for an index the map does not hold
get_ref(market_index) == market_index \in MarketIndices

\* math::funding::calculate_funding_payment: proportional to the position
\* size and to the counter delta; a long position pays a rising counter
calculate_funding_payment(amm_cumulative_funding_rate, market_position) ==
    LET funding_rate_delta ==
            i128_checked_sub(amm_cumulative_funding_rate,
                             market_position.last_cumulative_funding_rate)
    IN  IF ~funding_rate_delta.ok THEN Err
        ELSE LET owed == i128_checked_mul(funding_rate_delta.v,
                                          market_position.base_asset_amount)
             IN  IF ~owed.ok THEN Err ELSE i128_checked_mul(owed.v, -1)

applicable_counter_sides_swapped(m, market_position) ==
    IF market_position.base_asset_amount > 0
    THEN m.cumulative_funding_rate_short
    ELSE m.cumulative_funding_rate_long

\* lines 37-41: the counter of the position's side
applicable_counter(m, market_position) ==
    IF market_position.base_asset_amount > 0
    THEN m.cumulative_funding_rate_long
    ELSE m.cumulative_funding_rate_short

FundingPaymentRecord_after_assignment(ts, m, market_position, market_funding_payment) ==
    [ts |-> ts,
     market_index |-> market_position.market_index,
     funding_payment |-> market_funding_payment,
     user_last_cumulative_funding |-> applicable_counter(m, market_position),
     user_last_funding_rate_ts |-> m.last_funding_rate_ts,
     amm_cumulative_funding_long |-> m.cumulative_funding_rate_long,
     amm_cumulative_funding_short |-> m.cumulative_funding_rate_short,
     base_asset_amount |-> market_position.base_asset_amount]

\* lines 49-60
FundingPaymentRecord(ts, m, market_position, market_funding_payment) ==
    [ts |-> ts,
     market_index |-> market_position.market_index,
     funding_payment |-> market_funding_payment,
     user_last_cumulative_funding |-> market_position.last_cumulative_funding_rate,
     user_last_funding_rate_ts |-> market_position.last_funding_rate_ts,
     amm_cumulative_funding_long |-> m.cumulative_funding_rate_long,
     amm_cumulative_funding_short |-> m.cumulative_funding_rate_short,
     base_asset_amount |-> market_position.base_asset_amount]

apply_payment_keeping_counter(m, market_position, amm_cumulative_funding_rate, market_funding_payment) ==
    LET sum == i128_checked_add(market_position.unsettled_pnl, market_funding_payment)
    IN  IF ~sum.ok
        THEN [ok |-> FALSE, position |-> market_position]
        ELSE [ok |-> TRUE, position |-> [market_position EXCEPT !.unsettled_pnl = sum.v]]

\* lines 62-67: the position takes the counter and the market's timestamp,
\* then the payment is added; a failing addition returns with the two
\* assignments made
apply_payment(m, market_position, amm_cumulative_funding_rate, market_funding_payment) ==
    LET p1 == [market_position EXCEPT
                  !.last_cumulative_funding_rate = amm_cumulative_funding_rate,
                  !.last_funding_rate_ts = m.last_funding_rate_ts]
        sum == i128_checked_add(p1.unsettled_pnl, market_funding_payment)
    IN  IF ~sum.ok
        THEN [ok |-> FALSE, position |-> p1]
        ELSE [ok |-> TRUE, position |-> [p1 EXCEPT !.unsettled_pnl = sum.v]]

settle_position_without_size_test(m, market_position, ts) ==
    LET same == [ok |-> TRUE, position |-> market_position, records |-> <<>>]
        fail == [ok |-> FALSE, position |-> market_position, records |-> <<>>]
        amm_cumulative_funding_rate == applicable_counter(m, market_position)
        owed == calculate_funding_payment(amm_cumulative_funding_rate, market_position)
        market_funding_payment ==
            IF owed.ok
            THEN i128_checked_div(owed.v, AMM_TO_QUOTE_PRECISION_RATIO_I128)
            ELSE Err
        applied == apply_payment(m, market_position, amm_cumulative_funding_rate,
                                 market_funding_payment.v)
    IN  IF ~get_ref(market_position.market_index) THEN fail
        ELSE IF amm_cumulative_funding_rate = market_position.last_cumulative_funding_rate
             THEN same
        ELSE IF ~market_funding_payment.ok THEN fail
        ELSE [ok |-> applied.ok,
              position |-> applied.position,
              records |-> <<FundingPaymentRecord(ts, m, market_position,
                                                 market_funding_payment.v)>>]

\* the body of the loop, lines 30-68, for one position
settle_position(m, market_position, ts) ==
    LET same == [ok |-> TRUE, position |-> market_position, records |-> <<>>]
        fail == [ok |-> FALSE, position |-> market_position, records |-> <<>>]
    IN  IF market_position.base_asset_amount = 0 THEN same
        ELSE IF ~get_ref(market_position.market_index) THEN fail
        ELSE
        LET amm_cumulative_funding_rate == applicable_counter(m, market_position)
        IN  IF amm_cumulative_funding_rate = market_position.last_cumulative_funding_rate
            THEN same
            ELSE
            LET owed == calculate_funding_payment(amm_cumulative_funding_rate,
                                                  market_position)
                market_funding_payment ==
                    IF owed.ok
                    THEN i128_checked_div(owed.v, AMM_TO_QUOTE_PRECISION_RATIO_I128)
                    ELSE Err
            IN  IF ~market_funding_payment.ok THEN fail
                ELSE
                LET applied == apply_payment(m, market_position,
                                             amm_cumulative_funding_rate,
                                             market_funding_payment.v)
                IN  [ok |-> applied.ok,
                     position |-> applied.position,
                     records |-> <<FundingPaymentRecord(ts, m, market_position,
                                                        market_funding_payment.v)>>]

\* the loop over user.positions from position i on; the first failure returns
RECURSIVE settle_from(_, _, _, _, _)
settle_from(m, positions, i, records, ts) ==
    IF i > Len(positions)
    THEN [ok |-> TRUE, positions |-> positions, records |-> records, failed_at |-> 0]
    ELSE LET step == settle_position(m, positions[i], ts)
             positions1 == [positions EXCEPT ![i] = step.position]
             records1 == records \o step.records
         IN  IF ~step.ok
             THEN [ok |-> FALSE, positions |-> positions1, records |-> records1,
                   failed_at |-> i]
             ELSE settle_from(m, positions1, i + 1, records1, ts)

settle_funding_payment_stamping_market(u, m, ts) ==
    LET out == settle_from(m, u.positions, 1, <<>>, ts)
    IN  [ok |-> out.ok, positions |-> out.positions, records |-> out.records,
         failed_at |-> out.failed_at,
         market |-> [m EXCEPT !.last_funding_rate_ts = ts]]

\* the call reads the market through the shared reference of get_ref and
\* leaves it as it found it
settle_funding_payment(u, m, ts) ==
    LET out == settle_from(m, u.positions, 1, <<>>, ts)
    IN  [ok |-> out.ok, positions |-> out.positions, records |-> out.records,
         failed_at |-> out.failed_at, market |-> m]

(***************************************************************************)
(* state/oracle.rs: get_oracle_price                                       *)
(***************************************************************************)
RECURSIVE Pow10(_)
Pow10(n) == IF n = 0 THEN 1 ELSE 10 * Pow10(n - 1)

\* 10^n as the wrapping u128 multiplication leaves it, and whether a step
\* of it overflowed
RECURSIVE wrapping_pow10(_)
wrapping_pow10(n) ==
    IF n = 0 THEN [v |-> 1, overflowed |-> FALSE]
    ELSE LET r == wrapping_pow10(n - 1)
         IN  [v |-> (r.v * 10) % (U128_MAX + 1),
              overflowed |-> r.overflowed \/ r.v * 10 > U128_MAX]

\* 10_u128.pow(n): an overflow panics in a build with overflow checks and
\* wraps in a build without; Err stands for the panic
u128_pow10(n, overflow_checks) ==
    LET r == wrapping_pow10(n)
    IN  IF r.overflowed /\ overflow_checks THEN Err ELSE Ok(r.v)

\* `x as i128` of a u128: the same bits
as_i128(x) == IF x > I128_MAX THEN x - (U128_MAX + 1) ELSE x

\* the answers of get_oracle_price
OracleOk(price, confidence, delay, has_sufficient_number_of_data_points) ==
    [kind |-> "ok", price |-> price, confidence |-> confidence, delay |-> delay,
     has_sufficient_number_of_data_points |-> has_sufficient_number_of_data_points]
OracleErr(code) ==
    [kind |-> code, price |-> 0, confidence |-> 0, delay |-> 0,
     has_sufficient_number_of_data_points |-> FALSE]

\* lines 90-92 and 124-128: cast_to_i64(clock_slot)? - cast(slot)?
oracle_delay(clock_slot, slot) ==
    LET a == cast_to_i64(clock_slot)
        b == cast_to_i64(slot)
    IN  IF ~a.ok \/ ~b.ok THEN Err ELSE i64_checked_sub(a.v, b.v)

get_pyth_price(price_oracle, clock_slot, overflow_checks) ==
    IF ~price_oracle.loadable THEN OracleErr("UnableToLoadOracle")
    ELSE
    LET oracle_price == cast_to_i128(price_oracle.price)
        oracle_conf == cast_to_u128(price_oracle.conf)
        oracle_precision == u128_pow10(Abs(price_oracle.expo), overflow_checks)
    IN  IF ~oracle_price.ok \/ ~oracle_conf.ok THEN OracleErr("MathError")
        ELSE IF ~oracle_precision.ok THEN OracleErr("panic")
        ELSE
        LET oracle_scale_div ==
                IF oracle_precision.v > MARK_PRICE_PRECISION
                THEN u128_checked_div(oracle_precision.v, MARK_PRICE_PRECISION)
                ELSE Ok(1)
            oracle_scale_mult ==
                IF oracle_precision.v > MARK_PRICE_PRECISION
                THEN Ok(1)
                ELSE u128_checked_div(MARK_PRICE_PRECISION, oracle_precision.v)
        IN  IF ~oracle_scale_div.ok \/ ~oracle_scale_mult.ok THEN OracleErr("MathError")
            ELSE
            LET mult == cast_to_i128(oracle_scale_mult.v)
                div == cast_to_i128(oracle_scale_div.v)
                price_mult == IF mult.ok
                              THEN i128_checked_mul(oracle_price.v, mult.v) ELSE Err
                oracle_price_scaled ==
                    IF price_mult.ok /\ div.ok
                    THEN i128_checked_div(price_mult.v, div.v) ELSE Err
                conf_mult == u128_checked_mul(oracle_conf.v, oracle_scale_mult.v)
                oracle_conf_scaled ==
                    IF conf_mult.ok
                    THEN u128_checked_div(conf_mult.v, oracle_scale_div.v) ELSE Err
                delay == oracle_delay(clock_slot, price_oracle.valid_slot)
            IN  IF ~oracle_price_scaled.ok \/ ~oracle_conf_scaled.ok \/ ~delay.ok
                THEN OracleErr("MathError")
                ELSE OracleOk(oracle_price_scaled.v, oracle_conf_scaled.v, delay.v, TRUE)

convert_switchboard_decimal(switchboard_decimal, overflow_checks) ==
    LET switchboard_precision == u128_pow10(switchboard_decimal.scale, overflow_checks)
    IN  IF ~switchboard_precision.ok \/ switchboard_precision.v = 0
        THEN [ok |-> FALSE, v |-> 0, panic |-> TRUE]
        ELSE
        LET converted ==
                IF switchboard_precision.v > MARK_PRICE_PRECISION
                THEN i128_checked_div(
                         switchboard_decimal.mantissa,
                         as_i128(switchboard_precision.v \div MARK_PRICE_PRECISION))
                ELSE i128_checked_mul(
                         switchboard_decimal.mantissa,
                         as_i128(MARK_PRICE_PRECISION \div switchboard_precision.v))
        IN  [ok |-> converted.ok, v |-> converted.v, panic |-> FALSE]

\* lines 114-122: a negative deviation is flagged, another is floored
switchboard_confidence_unfloored(price, confidence) ==
    IF confidence < 0 THEN Ok(U128_MAX) ELSE Ok(Abs(confidence))

switchboard_confidence(price, confidence) ==
    IF confidence < 0 THEN Ok(U128_MAX)
    ELSE LET price_10bps == u128_checked_div(Abs(price), 1000)
         IN  IF ~price_10bps.ok THEN Err
             ELSE Ok(Max(Abs(confidence), price_10bps.v))

get_switchboard_price(price_oracle, clock_slot, overflow_checks) ==
    IF ~price_oracle.loadable THEN OracleErr("UnableToLoadOracle")
    ELSE
    LET price == convert_switchboard_decimal(price_oracle.result, overflow_checks)
        deviation == convert_switchboard_decimal(price_oracle.std_deviation,
                                                 overflow_checks)
    IN  IF price.panic THEN OracleErr("panic")
        ELSE IF ~price.ok THEN OracleErr("MathError")
        ELSE IF deviation.panic THEN OracleErr("panic")
        ELSE IF ~deviation.ok THEN OracleErr("MathError")
        ELSE
        LET confidence == switchboard_confidence(price.v, deviation.v)
            delay == oracle_delay(clock_slot, price_oracle.round_open_slot)
        IN  IF ~confidence.ok \/ ~delay.ok THEN OracleErr("MathError")
            ELSE OracleOk(price.v, confidence.v, delay.v,
                          price_oracle.num_success >= price_oracle.min_oracle_results)

get_oracle_price(oracle_source, price_oracle, clock_slot, overflow_checks) ==
    CASE oracle_source = "Pyth" -> get_pyth_price(price_oracle, clock_slot, overflow_checks)
      [] oracle_source = "Switchboard" ->
            get_switchboard_price(price_oracle, clock_slot, overflow_checks)
      [] oracle_source = "QuoteAsset" -> OracleOk(MARK_PRICE_PRECISION_I128, 1, 0, TRUE)

\* the fields of the oracle accounts that get_oracle_price reads
SwitchboardDecimal(mantissa, scale) == [mantissa |-> mantissa, scale |-> scale]

PriceOracle(loadable, price, conf, expo, valid_slot, result, std_deviation, round_open_slot, num_success, min_oracle_results) ==
    [loadable |-> loadable, price |-> price, conf |-> conf, expo |-> expo,
     valid_slot |-> valid_slot, result |-> result, std_deviation |-> std_deviation,
     round_open_slot |-> round_open_slot, num_success |-> num_success,
     min_oracle_results |-> min_oracle_results]

ZeroDecimal == SwitchboardDecimal(0, 0)

\* no read of the oracle
NoRead ==
    [oracle_source |-> "none",
     price_oracle |-> PriceOracle(FALSE, 0, 0, 0, 0, ZeroDecimal, ZeroDecimal, 0, 0, 0),
     clock_slot |-> 0, overflow_checks |-> TRUE]

(***************************************************************************)
(* math/curve.rs: calculate_base_asset_price_with_mantissa                 *)
(***************************************************************************)
MARK_PRICE_MANTISSA == MARK_PRICE_PRECISION
PEG_PRECISION == 1000

\* U256 has twice the bits of u128
InU256(x) == 0 <= x /\ x \div Pow2(BITS128) < Pow2(BITS128)
u256_checked_mul(a, b) == IF InU256(a * b) THEN Ok(a * b) ELSE Err
u256_checked_div(a, b) == IF b = 0 THEN Err ELSE Ok(a \div b)
try_to_u128(x) == IF InU128(x) THEN Ok(x) ELSE Err

\* what the function returns, or the panic of an unwrap
PriceOk(v) == [kind |-> "ok", v |-> v]
PricePanic == [kind |-> "panic", v |-> 0]
NoPrice == [kind |-> "none", v |-> 0]

calculate_base_asset_price_with_mantissa(unpegged_quote_asset_amount, base_asset_amount, peg_multiplier) ==
    LET peg_quote_asset_amount ==
            u128_checked_mul(unpegged_quote_asset_amount, peg_multiplier)
        ratio == u128_checked_div(MARK_PRICE_MANTISSA, PEG_PRECISION)
    IN  IF ~peg_quote_asset_amount.ok \/ ~ratio.ok THEN PricePanic
        ELSE
        LET product == u256_checked_mul(peg_quote_asset_amount.v, ratio.v)
            quotient == IF product.ok
                        THEN u256_checked_div(product.v, base_asset_amount)
                        ELSE Err
            ast_px == IF quotient.ok THEN try_to_u128(quotient.v) ELSE Err
        IN  IF ast_px.ok THEN PriceOk(ast_px.v) ELSE PricePanic

CurveCall(unpegged_quote_asset_amount, base_asset_amount, peg_multiplier) ==
    [unpegged_quote_asset_amount |-> unpegged_quote_asset_amount,
     base_asset_amount |-> base_asset_amount,
     peg_multiplier |-> peg_multiplier]

NoCurveCall == CurveCall(0, 0, 0)

(***************************************************************************)
(* Initial states                                                          *)
(***************************************************************************)
Market(funding_period, last_funding_rate_ts, counter) ==
    [funding_period |-> funding_period,
     last_funding_rate |-> 0,
     last_funding_rate_ts |-> last_funding_rate_ts,
     cumulative_funding_rate_long |-> counter,
     cumulative_funding_rate_short |-> counter,
     next_funding_rate_record_id |-> 1,
     last_oracle_price_twap |-> 100,
     last_mark_price_twap |-> 100]

MarketPosition(market_index, base_asset_amount, counter, unsettled_pnl) ==
    [market_index |-> market_index,
     base_asset_amount |-> base_asset_amount,
     last_cumulative_funding_rate |-> counter,
     last_funding_rate_ts |-> 0,
     unsettled_pnl |-> unsettled_pnl]

User(positions) == [positions |-> positions]

\* a long and a short position, a closed position, a position in a market the
\* map does not hold, balances next to the end of the range, and positions
\* that last settled against a counter far from the market's
InitialUsers(counter) ==
    IF counter = 0
    THEN { User(<<MarketPosition(0, 3, counter, 0),
                  MarketPosition(0, -2, counter, I128_MAX - 5)>>),
           User(<<MarketPosition(0, 0, counter, 0),
                  MarketPosition(0, 3, counter, I128_MAX - 5)>>),
           User(<<MarketPosition(0, -2, counter, 0),
                  MarketPosition(1, 3, counter, 0)>>) }
    ELSE { User(<<MarketPosition(0, 3, counter, 0),
                  MarketPosition(0, -2, counter, 0)>>),
           User(<<MarketPosition(0, 3, 0, 0),
                  MarketPosition(0, -2, 0, 0)>>) }

Snapshot(m, u, rates, payments) ==
    [market |-> m, user |-> u, rateLog |-> rates, paymentLog |-> payments]

NoCall ==
    [op |-> "none", result |-> "ok", now |-> 0, funding_paused |-> FALSE,
     guard |-> "clear", wait |-> Err, proceeded |-> FALSE, oracle_twap |-> 0,
     clamped |-> Err, rate |-> 0, was_settled |-> FALSE, failed_at |-> 0]

\* the period, the timestamp of the last update and the time of the first
\* call: a timestamp on a period boundary, off it by no more and by more than
\* a third; and the period of one second
InitialSchedules ==
    (FundingPeriods \X InitialTimestamps \X {0}) \cup {<<1, 2, 3>>}

Init ==
    /\ \E schedule \in InitialSchedules, counter \in InitialCounters :
          /\ market = Market(schedule[1], schedule[2], counter)
          /\ now = schedule[3]
          /\ user \in InitialUsers(counter)
    /\ rateLog = <<>>
    /\ paymentLog = <<>>
    /\ settled = FALSE
    /\ pre = Snapshot(market, user, rateLog, paymentLog)
    /\ last = NoCall
    /\ oracle_read = NoRead
    /\ oracle_price_data = OracleErr("none")
    /\ curve_call = NoCurveCall
    /\ curve_price = NoPrice

(***************************************************************************)
(* Actions: one per call, each call a transaction of the host              *)
(***************************************************************************)
Running == last.result = "err"

\* the host's clock advances between transactions
Tick ==
    /\ ~Running
    /\ now < MaxNow
    /\ now' = now + 1
    /\ pre' = Snapshot(market, user, rateLog, paymentLog)
    /\ last' = NoCall
    /\ UNCHANGED <<market, user, rateLog, paymentLog, settled>>
    /\ UNCHANGED oracleVars
    /\ UNCHANGED curveVars

\* one call of update_funding_rate with the given inputs
CallUpdate(funding_paused, guard, oracle_sample, mark_sample, split) ==
    \E out \in {update_funding_rate(market, now, guard, funding_paused,
                                    oracle_sample, mark_sample, split)} :
        /\ market' = out.market
        /\ rateLog' = rateLog \o out.records
        /\ last' = [op |-> "update",
                    result |-> IF out.ok THEN "ok" ELSE "err",
                    now |-> now,
                    funding_paused |-> funding_paused,
                    guard |-> guard,
                    wait |-> out.wait,
                    proceeded |-> out.proceeded,
                    oracle_twap |-> out.oracle_twap,
                    clamped |-> out.clamped,
                    rate |-> out.rate,
                    was_settled |-> settled,
                    failed_at |-> 0]
        /\ pre' = Snapshot(market, user, rateLog, paymentLog)
        /\ settled' = FALSE
        /\ UNCHANGED <<user, paymentLog>>
        /\ UNCHANGED oracleVars
        /\ UNCHANGED curveVars

\* the TWAP samples and the split are read only by a call that is not paused
\* and not blocked; the other calls are given the first of each
UpdateFundingRate ==
    /\ ~Running
    /\ Len(rateLog) < MaxRecords
    /\ UNCHANGED now
    /\ \E funding_paused \in BOOLEAN, guard \in GuardOutcomes :
          IF ~funding_paused /\ guard = "clear"
          THEN \E oracle_sample \in OracleTwapSamples,
                  mark_sample \in MarkTwapSamples, split \in SplitOutcomes :
                  CallUpdate(funding_paused, guard, oracle_sample, mark_sample, split)
          ELSE CallUpdate(funding_paused, guard, 33, 100, "symmetric")

SettleFundingPayment ==
    /\ ~Running
    /\ \E out \in {settle_funding_payment(user, market, now)} :
           /\ user' = [user EXCEPT !.positions = out.positions]
           /\ market' = out.market
           /\ paymentLog' = paymentLog \o out.records
           /\ settled' = IF out.ok THEN TRUE ELSE settled
           /\ last' = [NoCall EXCEPT !.op = "settle",
                                     !.result = IF out.ok THEN "ok" ELSE "err",
                                     !.now = now,
                                     !.was_settled = settled,
                                     !.failed_at = out.failed_at]
    /\ pre' = Snapshot(market, user, rateLog, paymentLog)
    /\ UNCHANGED <<rateLog, now>>
    /\ UNCHANGED oracleVars
    /\ UNCHANGED curveVars

\* a call that returned an error fails its transaction: the host discards
\* the writes and the records of the call
Abort ==
    /\ Running
    /\ market' = pre.market
    /\ user' = pre.user
    /\ rateLog' = pre.rateLog
    /\ paymentLog' = pre.paymentLog
    /\ last' = [last EXCEPT !.result = "aborted"]
    /\ UNCHANGED <<now, settled, pre>>
    /\ UNCHANGED oracleVars
    /\ UNCHANGED curveVars

Next == Tick \/ UpdateFundingRate \/ SettleFundingPayment \/ Abort

Spec == Init /\ [][Next]_vars

(***************************************************************************)
(* Properties of the funding lifecycle (specification Spec)                *)
(***************************************************************************)
Positions == DOMAIN user.positions

AfterCall(op) == last.op = op /\ last.result \in {"ok", "err"}
Succeeded(op) == last.op = op /\ last.result = "ok"
Failed(op) == last.op = op /\ last.result = "err"

\* C1: a successful settle_funding_payment that follows a successful one with
\* no update_funding_rate call in between changes no position and emits no
\* FundingPaymentRecord
C1_SettleIdempotent ==
    (Succeeded("settle") /\ last.was_settled) =>
        /\ user = pre.user
        /\ paymentLog = pre.paymentLog

\* the second settlement of a user whose first settlement paid funding
C1_Witness ==
    /\ Succeeded("settle")
    /\ last.was_settled
    /\ paymentLog # <<>>

\* C2: right after a successful settle_funding_payment every position of
\* nonzero size holds the market's current counter of its side
C2_SettledAtCurrentCounter ==
    Succeeded("settle") =>
        \A i \in Positions :
            LET position == user.positions[i]
            IN  /\ position.base_asset_amount > 0 =>
                       position.last_cumulative_funding_rate =
                           market.cumulative_funding_rate_long
                /\ position.base_asset_amount < 0 =>
                       position.last_cumulative_funding_rate =
                           market.cumulative_funding_rate_short

\* a settlement that moved a long and a short position onto counters that
\* differ from each other
C2_Witness ==
    /\ Succeeded("settle")
    /\ market.cumulative_funding_rate_long # market.cumulative_funding_rate_short
    /\ \E i, j \in Positions :
          /\ user.positions[i].base_asset_amount > 0
          /\ user.positions[j].base_asset_amount < 0
          /\ user.positions[i] # pre.user.positions[i]
          /\ user.positions[j] # pre.user.positions[j]

\* the update of the last call was not yet due
NotYetDue ==
    LET wait == next_update_wait(pre.market.funding_period,
                                 pre.market.last_funding_rate_ts)
    IN  wait.ok /\ last.now - pre.market.last_funding_rate_ts < wait.v

SkipCase == last.funding_paused \/ last.guard = "blocked" \/ NotYetDue

\* the steps before the policy decision: the elapsed time, the guard, the wait
FailsBeforeDecision ==
    \/ ~InI64(last.now - pre.market.last_funding_rate_ts)
    \/ last.guard = "error"
    \/ ~next_update_wait(pre.market.funding_period,
                         pre.market.last_funding_rate_ts).ok

\* C3 as stated: a paused, blocked or not yet due update_funding_rate returns
\* success, changes no field of the market and emits no FundingRateRecord
C3_SkipAlwaysSucceeds ==
    (AfterCall("update") /\ SkipCase) =>
        /\ last.result = "ok"
        /\ market = pre.market
        /\ rateLog = pre.rateLog

\* C3 amended: a paused, blocked or not yet due update_funding_rate changes
\* no field of the market and emits no FundingRateRecord; it returns success
\* unless the elapsed time, the guard or the wait fails, and then an error
C3_PolicySkip ==
    (AfterCall("update") /\ SkipCase) =>
        /\ market = pre.market
        /\ rateLog = pre.rateLog
        /\ ~last.proceeded
        /\ (last.result = "ok") = ~FailsBeforeDecision

\* a due update that is skipped only because funding is paused
C3_Witness ==
    /\ Succeeded("update")
    /\ last.funding_paused
    /\ last.guard = "clear"
    /\ ~NotYetDue

\* C5 as stated: the clamped spread of an update that proceeds is within
\* oracle_twap / 33 in absolute value, whatever the sign of the oracle TWAP
C5_ClampedWithinOracleBand ==
    (Succeeded("update") /\ last.proceeded /\ last.clamped.ok) =>
        Abs(last.clamped.v) <= TruncDiv(last.oracle_twap, 33)

\* the payment the settlement of position i owes for the counter it took
PaymentFor(i) ==
    TruncDiv(-((user.positions[i].last_cumulative_funding_rate
                    - pre.user.positions[i].last_cumulative_funding_rate)
                * user.positions[i].base_asset_amount),
             AMM_TO_QUOTE_PRECISION_RATIO_I128)

\* C7 as stated: in every state a settle_funding_payment call leaves, the
\* failing ones included, a position whose last_cumulative_funding_rate the
\* call changed has had the payment added to its unsettled_pnl
C7_LockStep ==
    AfterCall("settle") =>
        \A i \in Positions :
            user.positions[i].last_cumulative_funding_rate
                # pre.user.positions[i].last_cumulative_funding_rate
            => user.positions[i].unsettled_pnl
                   = pre.user.positions[i].unsettled_pnl + PaymentFor(i)

C9_OneRecordPerUpdate ==
    /\ (Succeeded("update") /\ last.proceeded) =>
          /\ Len(rateLog) = Len(pre.rateLog) + 1
          /\ market.last_funding_rate = last.rate
          /\ market.last_funding_rate_ts = last.now
          /\ market.next_funding_rate_record_id
                 = pre.market.next_funding_rate_record_id + 1
          /\ LET record == rateLog[Len(rateLog)]
             IN  /\ record.ts = last.now
                 /\ record.record_id = pre.market.next_funding_rate_record_id
                 /\ record.funding_rate = last.rate
                 /\ record.cumulative_funding_rate_long
                        = market.cumulative_funding_rate_long
                 /\ record.cumulative_funding_rate_short
                        = market.cumulative_funding_rate_short
    /\ (Succeeded("update") /\ ~last.proceeded) => rateLog = pre.rateLog
    /\ \A i \in 1..(Len(rateLog) - 1) :
          rateLog[i + 1].record_id = rateLog[i].record_id + 1

\* the second update of a market, with counters that differ by side
C9_Witness ==
    /\ Succeeded("update")
    /\ last.proceeded
    /\ Len(rateLog) = 2
    /\ market.cumulative_funding_rate_long # market.cumulative_funding_rate_short

\* C11: settle_funding_payment changes no field of the market and emits no
\* FundingRateRecord, and its result is that of the user, the market and now
\* alone; update_funding_rate changes no position and emits no
\* FundingPaymentRecord; the cumulative counters of the market differ from
\* those a call found only after a call of update_funding_rate that proceeded
C11_Frame ==
    /\ AfterCall("settle") =>
          /\ market = pre.market
          /\ rateLog = pre.rateLog
          /\ (last.result = "ok")
                 = settle_funding_payment(pre.user, pre.market, last.now).ok
    /\ AfterCall("update") =>
          /\ user = pre.user
          /\ paymentLog = pre.paymentLog
    /\ (\/ market.cumulative_funding_rate_long
               # pre.market.cumulative_funding_rate_long
        \/ market.cumulative_funding_rate_short
               # pre.market.cumulative_funding_rate_short)
          => (last.op = "update" /\ last.proceeded)

\* a settlement that moves a position onto counters an update has advanced
C11_Witness ==
    /\ Succeeded("settle")
    /\ user # pre.user
    /\ rateLog # <<>>
    /\ market.cumulative_funding_rate_long # 0

\* position i was due when the call began: its size is not zero and the
\* counter of its side differs from the one it last settled against
Due(i) ==
    LET position == pre.user.positions[i]
    IN  /\ position.base_asset_amount # 0
        /\ position.last_cumulative_funding_rate
               # (IF position.base_asset_amount > 0
                  THEN pre.market.cumulative_funding_rate_long
                  ELSE pre.market.cumulative_funding_rate_short)

\* the FundingPaymentRecords the last call emitted
EmittedPayments ==
    SubSeq(paymentLog, Len(pre.paymentLog) + 1, Len(paymentLog))

\* the number of them that are for position i; the positions of a user differ
\* in size
PaymentsOf(i) ==
    Cardinality({k \in DOMAIN EmittedPayments :
                    EmittedPayments[k].base_asset_amount
                        = pre.user.positions[i].base_asset_amount})

\* C13: settle_funding_payment changes a position or emits a record for it
\* only if the position was due, and a call that returns success has changed
\* every position that was due and emitted one record for it
C13_SettlesExactlyTheDue ==
    /\ AfterCall("settle") =>
          \A i \in Positions :
              (user.positions[i] # pre.user.positions[i] \/ PaymentsOf(i) > 0)
                  => Due(i)
    /\ Succeeded("settle") =>
          \A i \in Positions :
              Due(i) => /\ user.positions[i] # pre.user.positions[i]
                        /\ PaymentsOf(i) = 1

\* a settlement that skips a closed position, both counters having moved
\* away from the one it holds, and settles the position next to it
C13_Witness ==
    /\ Succeeded("settle")
    /\ \E i, j \in Positions :
          /\ pre.user.positions[i].base_asset_amount = 0
          /\ pre.user.positions[i].last_cumulative_funding_rate
                 # market.cumulative_funding_rate_long
          /\ pre.user.positions[i].last_cumulative_funding_rate
                 # market.cumulative_funding_rate_short
          /\ user.positions[i] = pre.user.positions[i]
          /\ Due(j)
          /\ PaymentsOf(j) = 1

\* the records the last call emitted for position i
RecordsOf(i) ==
    {k \in DOMAIN EmittedPayments :
        EmittedPayments[k].base_asset_amount
            = pre.user.positions[i].base_asset_amount}

\* the sum of funding_payment over a set of the emitted records
RECURSIVE SumOfPayments(_)
SumOfPayments(ks) ==
    IF ks = {} THEN 0
    ELSE LET k == CHOOSE x \in ks : TRUE
         IN  EmittedPayments[k].funding_payment + SumOfPayments(ks \ {k})

\* C16: a settle_funding_payment that returns success has changed the
\* unsettled_pnl of each position by the sum of funding_payment over the
\* records it emitted for the position; each record carries the counter and
\* the timestamp the position held before the call, and a position that was
\* settled holds the counter of its side and the market's
\* last_funding_rate_ts
C16_RecordsMatchAccounting ==
    Succeeded("settle") =>
        \A i \in Positions :
            LET before == pre.user.positions[i]
                after == user.positions[i]
            IN  /\ after.unsettled_pnl - before.unsettled_pnl
                       = SumOfPayments(RecordsOf(i))
                /\ \A k \in RecordsOf(i) :
                       /\ EmittedPayments[k].user_last_cumulative_funding
                              = before.last_cumulative_funding_rate
                       /\ EmittedPayments[k].user_last_funding_rate_ts
                              = before.last_funding_rate_ts
                       /\ EmittedPayments[k].ts = last.now
                /\ Due(i) =>
                       /\ after.last_cumulative_funding_rate
                              = (IF after.base_asset_amount > 0
                                 THEN market.cumulative_funding_rate_long
                                 ELSE market.cumulative_funding_rate_short)
                       /\ after.last_funding_rate_ts = market.last_funding_rate_ts

\* a settlement later than the update it settles: a payment that is not zero,
\* a position that takes the timestamp of the update and not now
C16_Witness ==
    /\ Succeeded("settle")
    /\ market.last_funding_rate_ts # last.now
    /\ \E i \in Positions :
          /\ Due(i)
          /\ SumOfPayments(RecordsOf(i)) # 0
          /\ user.positions[i].last_funding_rate_ts = market.last_funding_rate_ts
          /\ user.positions[i].last_funding_rate_ts
                 # pre.user.positions[i].last_funding_rate_ts

\* the least wait after an update at ts: the period after one on a period
\* boundary, the period less a third of it after another
MinSpacing(ts) ==
    IF ts % market.funding_period = 0
    THEN market.funding_period
    ELSE market.funding_period - (market.funding_period \div 3)

\* C19: an update that goes through is at least MinSpacing later than the
\* last_funding_rate_ts it found, so last_funding_rate_ts increases; two
\* consecutive FundingRateRecords are at least MinSpacing apart and no two
\* share a timestamp
C19_MinimumSpacing ==
    /\ (Succeeded("update") /\ last.proceeded) =>
          /\ market.last_funding_rate_ts > pre.market.last_funding_rate_ts
          /\ market.last_funding_rate_ts - pre.market.last_funding_rate_ts
                 >= MinSpacing(pre.market.last_funding_rate_ts)
    /\ \A i \in 1..(Len(rateLog) - 1) :
          rateLog[i + 1].ts - rateLog[i].ts >= MinSpacing(rateLog[i].ts)
    /\ \A i, j \in DOMAIN rateLog : i # j => rateLog[i].ts # rateLog[j].ts

\* two updates closer than a period: the first off the boundary by no more
\* than a third, the second on the boundary
C19_Witness ==
    /\ Succeeded("update")
    /\ last.proceeded
    /\ Len(rateLog) = 2
    /\ rateLog[1].ts % market.funding_period # 0
    /\ rateLog[2].ts - rateLog[1].ts = MinSpacing(rateLog[1].ts)
    /\ rateLog[2].ts - rateLog[1].ts < market.funding_period

(***************************************************************************)
(* The wait of update_funding_rate over every period and timestamp         *)
(* (specification SpecWait)                                                *)
(***************************************************************************)
MaxWaitPeriod == 66

Quiet ==
    /\ user = User(<<>>)
    /\ rateLog = <<>>
    /\ paymentLog = <<>>
    /\ settled = FALSE

InitWait ==
    /\ \E funding_period \in 1..MaxWaitPeriod, ts \in I64_MIN..I64_MAX :
          market = Market(funding_period, ts, 0)
    /\ Quiet
    /\ now = 0
    /\ pre = Snapshot(market, user, rateLog, paymentLog)
    /\ last = NoCall
    /\ oracle_read = NoRead
    /\ oracle_price_data = OracleErr("none")
    /\ curve_call = NoCurveCall
    /\ curve_price = NoPrice

\* lines 97-136 of update_funding_rate
ComputeWait ==
    /\ last.op = "none"
    /\ last' = [NoCall EXCEPT
                  !.op = "wait",
                  !.wait = next_update_wait(market.funding_period,
                                            market.last_funding_rate_ts)]
    /\ UNCHANGED <<market, user, rateLog, paymentLog, now, settled, pre>>
    /\ UNCHANGED oracleVars
    /\ UNCHANGED curveVars

NextWait == ComputeWait

SpecWait == InitWait /\ [][NextWait]_vars

\* C4: for a funding period above 1 the wait update_funding_rate computes is
\* above 0 and at most two periods, whatever last_funding_rate_ts is
C4_WaitWithinTwoPeriods ==
    (last.op = "wait" /\ market.funding_period > 1 /\ last.wait.ok) =>
        /\ 0 < last.wait.v
        /\ last.wait.v <= 2 * market.funding_period

\* a negative timestamp off the boundary by more than a third of the period,
\* whose wait runs into the following period
C4_Witness ==
    /\ last.op = "wait"
    /\ last.wait.ok
    /\ market.last_funding_rate_ts < 0
    /\ market.funding_period > 1
    /\ last.wait.v > market.funding_period

\* last_funding_rate_ts mod funding_period, line 99
LastUpdateDelay ==
    rem_euclid(market.last_funding_rate_ts, market.funding_period)

\* the wait of lines 116-128, where lines 104-114 go through
UncorrectedWait ==
    LET max_delay_for_next_period == i64_checked_div(market.funding_period, 3)
        two_funding_periods == i64_checked_mul(market.funding_period, 2)
    IN  IF max_delay_for_next_period.ok /\ two_funding_periods.ok
        THEN one_third_wait(market.funding_period, LastUpdateDelay,
                            max_delay_for_next_period.v, two_funding_periods.v)
        ELSE Err

\* C20: for a funding period above 1 and a last_funding_rate_ts off the
\* boundary the delay is in 1..p-1 and the wait of the one-third rule is at
\* most 2p - 1, so the test of line 130 is false and the wait is returned
\* without the correction
C20_CorrectionUnreachable ==
    (last.op = "wait" /\ market.funding_period > 1 /\ LastUpdateDelay # 0) =>
        /\ LastUpdateDelay \in 1..(market.funding_period - 1)
        /\ UncorrectedWait.ok =>
              /\ UncorrectedWait.v <= 2 * market.funding_period - 1
              /\ last.wait = UncorrectedWait

\* the longest wait: a negative timestamp, the delay above a third of the
\* period, the wait 2p - 1
C20_Witness ==
    /\ last.op = "wait"
    /\ market.funding_period > 1
    /\ market.last_funding_rate_ts < 0
    /\ LastUpdateDelay > market.funding_period \div 3
    /\ last.wait = Ok(2 * market.funding_period - 1)

(***************************************************************************)
(* update_funding_rate called at every tick (specification SpecSchedule)   *)
(***************************************************************************)
MaxScheduleNow == 14
MaxSchedulePeriod == 5
MaxScheduleGap == 10

InitSchedule ==
    /\ \E funding_period \in 2..MaxSchedulePeriod, ts \in (-MaxScheduleGap)..1 :
          market = Market(funding_period, ts, 0)
    /\ Quiet
    /\ now \in {0, 1}
    /\ pre = Snapshot(market, user, rateLog, paymentLog)
    /\ last = NoCall
    /\ oracle_read = NoRead
    /\ oracle_price_data = OracleErr("none")
    /\ curve_call = NoCurveCall
    /\ curve_price = NoPrice

\* the call of this tick, funding not paused, the guard clear and the samples
\* such that the arithmetic goes through; then the next tick
UpdateAtTick ==
    /\ now < MaxScheduleNow
    /\ CallUpdate(FALSE, "clear", 33, 100, "symmetric")
    /\ now' = now + 1

NextSchedule == UpdateAtTick

SpecSchedule == InitSchedule /\ [][NextSchedule]_vars

OnBoundary(ts) == ts % market.funding_period = 0

LaterUpdatesOnBoundary ==
    \A i \in 2..Len(rateLog) : OnBoundary(rateLog[i].ts)

\* C10 as stated: called at every tick, every update after the first is at a
\* multiple of the period, and an update never moves last_funding_rate_ts
\* off a multiple of the period
C10_NeverLeavesBoundary ==
    /\ LaterUpdatesOnBoundary
    /\ (Succeeded("update") /\ OnBoundary(pre.market.last_funding_rate_ts))
           => OnBoundary(market.last_funding_rate_ts)

\* C10 amended: called at every tick, every update after the first is at a
\* multiple of the period, and once an update of the run has put
\* last_funding_rate_ts on a multiple of the period every later update
\* keeps it on one
C10_SelfCorrecting ==
    /\ LaterUpdatesOnBoundary
    /\ (Succeeded("update") /\ pre.rateLog # <<>>
            /\ OnBoundary(pre.market.last_funding_rate_ts))
           => OnBoundary(market.last_funding_rate_ts)

\* a first update off the boundary and two later ones on it
C10_Witness ==
    /\ Len(rateLog) >= 3
    /\ ~OnBoundary(rateLog[1].ts)
    /\ OnBoundary(market.last_funding_rate_ts)
    /\ Succeeded("update")
    /\ last.proceeded

(***************************************************************************)
(* get_oracle_price over the oracle accounts (specification SpecOracle)    *)
(***************************************************************************)
PythAccounts ==
    { PriceOracle(TRUE, price, conf, expo, valid_slot, ZeroDecimal, ZeroDecimal, 0, 0, 0) :
        price \in {-20, 0, 1, 7, 50}, conf \in {0, 3}, expo \in {-7, -5, -2, 0, 1, 3},
        valid_slot \in {1, 7, I64_MAX + 1} }

SwitchboardAccounts ==
    { PriceOracle(TRUE, 0, 0, 0, 0, SwitchboardDecimal(x[1], x[2]),
                  SwitchboardDecimal(x[3], x[4]), 1, x[5], 2) :
        x \in {-3000, 0, 45, 2500} \X {0, 2, 5, 7}
              \X {-40, -5, 0, 2, 900} \X {2, 5} \X {1, 3} }

UnloadableAccounts ==
    { PriceOracle(FALSE, 0, 0, 0, 0, ZeroDecimal, ZeroDecimal, 0, 0, 0) }

OracleReads ==
    { [oracle_source |-> x[1][1], price_oracle |-> x[1][2], clock_slot |-> 5,
       overflow_checks |-> x[2]] :
        x \in (({"Pyth"} \X (PythAccounts \cup UnloadableAccounts))
               \cup ({"Switchboard"} \X (SwitchboardAccounts \cup UnloadableAccounts))
               \cup ({"QuoteAsset"} \X UnloadableAccounts)) \X BOOLEAN }

InitOracle ==
    /\ market = Market(1, 0, 0)
    /\ Quiet
    /\ now = 0
    /\ pre = Snapshot(market, user, rateLog, paymentLog)
    /\ last = NoCall
    /\ oracle_read \in OracleReads
    /\ oracle_price_data = OracleErr("none")
    /\ curve_call = NoCurveCall
    /\ curve_price = NoPrice

GetOraclePrice ==
    /\ oracle_price_data.kind = "none"
    /\ oracle_price_data' = get_oracle_price(oracle_read.oracle_source,
                                             oracle_read.price_oracle,
                                             oracle_read.clock_slot,
                                             oracle_read.overflow_checks)
    /\ UNCHANGED <<oracle_read>>
    /\ UNCHANGED fundingVars
    /\ UNCHANGED curveVars

NextOracle == GetOraclePrice

SpecOracle == InitOracle /\ [][NextOracle]_vars

\* the spread the source reports: Pyth's conf, Switchboard's std_deviation
\* mantissa; the quote asset reports none
ReportedSpread ==
    CASE oracle_read.oracle_source = "Pyth" -> oracle_read.price_oracle.conf
      [] oracle_read.oracle_source = "Switchboard" ->
            oracle_read.price_oracle.std_deviation.mantissa
      [] OTHER -> 0

ScaledDeviation ==
    LET d == oracle_read.price_oracle.std_deviation
    IN  TruncDiv(d.mantissa * MARK_PRICE_PRECISION, Pow10(d.scale))

ScalesRepresentable ==
    /\ Pow10(oracle_read.price_oracle.std_deviation.scale) <= U128_MAX
    /\ Pow10(oracle_read.price_oracle.result.scale) <= U128_MAX

Loaded ==
    /\ oracle_price_data.kind # "none"
    /\ oracle_read.oracle_source \in {"Pyth", "Switchboard"}
    /\ oracle_read.price_oracle.loadable

\* a power of ten the read needs is above u128::MAX
PowerUnrepresentable ==
    CASE oracle_read.oracle_source = "Pyth" ->
            Pow10(Abs(oracle_read.price_oracle.expo)) > U128_MAX
      [] oracle_read.oracle_source = "Switchboard" ->
            \/ Pow10(oracle_read.price_oracle.result.scale) > U128_MAX
            \/ Pow10(oracle_read.price_oracle.std_deviation.scale) > U128_MAX
      [] OTHER -> FALSE

\* the slot the delay is counted from
ReportSlot ==
    IF oracle_read.oracle_source = "Pyth"
    THEN oracle_read.price_oracle.valid_slot
    ELSE oracle_read.price_oracle.round_open_slot

\* a slot or their difference is outside i64
DelayUnrepresentable ==
    \/ ~InI64(oracle_read.clock_slot)
    \/ ~InI64(ReportSlot)
    \/ ~InI64(oracle_read.clock_slot - ReportSlot)

\* C12 as stated: get_oracle_price never panics, and a read whose power of
\* ten or whose delay is not representable returns an error value
C12_NeverWrapsOrPanics ==
    Loaded =>
        /\ oracle_price_data.kind # "panic"
        /\ (PowerUnrepresentable \/ DelayUnrepresentable)
               => oracle_price_data.kind = "MathError"

\* mantissa * 10^expo at MARK_PRICE_PRECISION, truncated toward zero, for the
\* exponent of the account that was read
PythAtEnginePrecision(mantissa) ==
    LET expo == oracle_read.price_oracle.expo
    IN  IF expo <= 0
        THEN TruncDiv(mantissa * MARK_PRICE_PRECISION, Pow10(-expo))
        ELSE mantissa * MARK_PRICE_PRECISION * Pow10(expo)

\* C15 as stated: for the Pyth source and every exponent whose power of ten
\* and whose scaled price are representable, an answer of get_oracle_price
\* carries price and confidence as mantissa * 10^expo at
\* MARK_PRICE_PRECISION, the delay
\* clock_slot - valid_slot and has_sufficient_number_of_data_points true
C15_PythAtEnginePrecision ==
    (oracle_price_data.kind = "ok" /\ oracle_read.oracle_source = "Pyth"
         /\ ~PowerUnrepresentable
         /\ InI128(PythAtEnginePrecision(oracle_read.price_oracle.price))) =>
        /\ oracle_price_data.price
              = PythAtEnginePrecision(oracle_read.price_oracle.price)
        /\ oracle_price_data.confidence
              = PythAtEnginePrecision(oracle_read.price_oracle.conf)
        /\ oracle_price_data.delay
              = oracle_read.clock_slot - oracle_read.price_oracle.valid_slot
        /\ oracle_price_data.has_sufficient_number_of_data_points

(***************************************************************************)
(* One due call of update_funding_rate for every funding period            *)
(* (specification SpecRate)                                                *)
(***************************************************************************)
RateOracleTwapSamples == {-66, 0, 33, 100}
RateMarkTwapSamples == {30, 100, 101}
RateSplitOutcomes == {"symmetric", "capped_short"}

\* the last update was at 0, on the boundary of every period, and the call
\* comes one period later
InitRate ==
    /\ \E funding_period \in 1..I64_MAX : /\ market = Market(funding_period, 0, 0)
                                          /\ now = funding_period
    /\ Quiet
    /\ pre = Snapshot(market, user, rateLog, paymentLog)
    /\ last = NoCall
    /\ oracle_read = NoRead
    /\ oracle_price_data = OracleErr("none")
    /\ curve_call = NoCurveCall
    /\ curve_price = NoPrice

UpdateOnce ==
    /\ last.op = "none"
    /\ UNCHANGED now
    /\ \E funding_paused \in BOOLEAN, guard \in GuardOutcomes :
          IF ~funding_paused /\ guard = "clear"
          THEN \E oracle_sample \in RateOracleTwapSamples,
                  mark_sample \in RateMarkTwapSamples, split \in RateSplitOutcomes :
                  CallUpdate(funding_paused, guard, oracle_sample, mark_sample, split)
          ELSE CallUpdate(funding_paused, guard, 33, 100, "symmetric")

NextRate == UpdateOnce

SpecRate == InitRate /\ [][NextRate]_vars

\* the spread of the two TWAPs the update stored, the bound of the clamp and
\* the adjustment of the period, in unbounded integers
StoredSpread == market.last_mark_price_twap - market.last_oracle_price_twap
StoredMaxSpread == TruncDiv(market.last_oracle_price_twap, 33)
StoredAdjustment == (24 * ONE_HOUR) \div Max(ONE_HOUR, market.funding_period)

\* C14: an update that proceeds stores the rate
\* max(-m, min(spread, m)) * FUNDING_PAYMENT_PRECISION / period_adjustment,
\* m = oracle_twap / 33, each division truncating toward zero; a spread within
\* m in absolute value is used as it is; and the one FundingRateRecord the
\* update emits carries the rate and the two TWAPs
C14_FundingRateFormula ==
    (Succeeded("update") /\ last.proceeded) =>
        /\ market.last_funding_rate
              = TruncDiv(Max(-StoredMaxSpread, Min(StoredSpread, StoredMaxSpread))
                             * FUNDING_PAYMENT_PRECISION,
                         StoredAdjustment)
        /\ Abs(StoredSpread) <= StoredMaxSpread =>
              market.last_funding_rate
                  = TruncDiv(StoredSpread * FUNDING_PAYMENT_PRECISION, StoredAdjustment)
        /\ Len(rateLog) = Len(pre.rateLog) + 1
        /\ rateLog[Len(rateLog)].funding_rate = market.last_funding_rate
        /\ rateLog[Len(rateLog)].mark_price_twap = market.last_mark_price_twap
        /\ rateLog[Len(rateLog)].oracle_price_twap = market.last_oracle_price_twap

\* the scenario at the model's scale: a period of one hour, the last update at
\* 0, now one hour, mark TWAP 101 and oracle TWAP 100: spread 1 within the
\* bound 3, adjustment 24
C14_Witness ==
    /\ Succeeded("update")
    /\ last.proceeded
    /\ market.funding_period = ONE_HOUR
    /\ pre.market.last_funding_rate_ts = 0
    /\ last.now = ONE_HOUR
    /\ market.last_mark_price_twap = 101
    /\ market.last_oracle_price_twap = 100
    /\ StoredAdjustment = 24
    /\ last.clamped = Ok(1)
    /\ market.last_funding_rate = FUNDING_PAYMENT_PRECISION \div 24
    /\ market.cumulative_funding_rate_long # pre.market.cumulative_funding_rate_long
    /\ Len(rateLog) = 1

\* the call was due, funding not paused and the guard clear
DueAndAllowed ==
    /\ AfterCall("update")
    /\ ~last.funding_paused
    /\ last.guard = "clear"
    /\ ~NotYetDue

\* C18: period_adjustment is at least 1 exactly for a funding period of at
\* most 24 hours and 0 above; above, a due, unpaused and unblocked update
\* returns an error and leaves the counters, last_funding_rate,
\* last_funding_rate_ts and next_funding_rate_record_id as they were
C18_LongPeriodNeverUpdates ==
    /\ LET adjustment == period_adjustment(market.funding_period)
       IN  /\ adjustment.ok
           /\ (adjustment.v >= 1) = (market.funding_period <= 24 * ONE_HOUR)
           /\ market.funding_period > 24 * ONE_HOUR => adjustment.v = 0
    /\ (DueAndAllowed /\ market.funding_period > 24 * ONE_HOUR) =>
          /\ last.result = "err"
          /\ market.cumulative_funding_rate_long
                 = pre.market.cumulative_funding_rate_long
          /\ market.cumulative_funding_rate_short
                 = pre.market.cumulative_funding_rate_short
          /\ market.last_funding_rate = pre.market.last_funding_rate
          /\ market.last_funding_rate_ts = pre.market.last_funding_rate_ts
          /\ market.next_funding_rate_record_id
                 = pre.market.next_funding_rate_record_id
          /\ rateLog = pre.rateLog

\* a due update of a market whose period is above 24 hours, which stores the
\* TWAPs, clamps the spread and fails at the division
C18_Witness ==
    /\ DueAndAllowed
    /\ market.funding_period > 24 * ONE_HOUR
    /\ last.result = "err"
    /\ last.proceeded
    /\ last.clamped.ok
    /\ market.last_mark_price_twap # pre.market.last_mark_price_twap

(***************************************************************************)
(* calculate_base_asset_price_with_mantissa over its arguments             *)
(* (specification SpecCurve)                                               *)
(***************************************************************************)
QuoteAmounts == {0, 1, 3, 1000, 2048, 30000}
BaseAmounts == {0, 1, 3, 1000, 4096}
PegMultipliers == {0, 1, 7, 1000, 1024}

InitCurve ==
    /\ market = Market(1, 0, 0)
    /\ Quiet
    /\ now = 0
    /\ pre = Snapshot(market, user, rateLog, paymentLog)
    /\ last = NoCall
    /\ oracle_read = NoRead
    /\ oracle_price_data = OracleErr("none")
    /\ \E unpegged \in QuoteAmounts, base \in BaseAmounts, peg \in PegMultipliers :
          curve_call = CurveCall(unpegged, base, peg)
    /\ curve_price = NoPrice

CalculateBaseAssetPrice ==
    /\ curve_price.kind = "none"
    /\ curve_price' = calculate_base_asset_price_with_mantissa(
                          curve_call.unpegged_quote_asset_amount,
                          curve_call.base_asset_amount,
                          curve_call.peg_multiplier)
    /\ UNCHANGED <<curve_call>>
    /\ UNCHANGED fundingVars
    /\ UNCHANGED oracleVars

NextCurve == CalculateBaseAssetPrice

SpecCurve == InitCurve /\ [][NextCurve]_vars

\* floor(unpegged * peg * (MARK_PRICE_MANTISSA / PEG_PRECISION) / base) in
\* unbounded integers; 0 stands for the undefined quotient by zero
ExactBaseAssetPrice ==
    IF curve_call.base_asset_amount = 0 THEN 0
    ELSE (curve_call.unpegged_quote_asset_amount * curve_call.peg_multiplier
              * (MARK_PRICE_MANTISSA \div PEG_PRECISION))
             \div curve_call.base_asset_amount

\* C17 as stated: for a base amount that is not zero and an exact price that
\* fits u128, calculate_base_asset_price_with_mantissa returns the exact
\* price, no intermediate product overflowing
C17_WideIntermediate ==
    (curve_price.kind # "none" /\ curve_call.base_asset_amount # 0
         /\ InU128(ExactBaseAssetPrice)) =>
        curve_price = PriceOk(ExactBaseAssetPrice)

=============================================================================
